---- MODULE Spec2Model ----
(***************************************************************************)
(* Model of protected_server.py: a Flask application with two handlers,    *)
(* /predict and /update, over one peewee table, Prediction.                *)
(*                                                                         *)
(* JSON values are tagged tuples, so that a null, a number and a string    *)
(* can be compared: None is <<"null">>, 7 is <<"int", 7>>, "Male" is       *)
(* <<"str", "Male">>.  A JSON object that the code iterates (data) is a    *)
(* sequence of <<key, value>> pairs with distinct keys, in the order of    *)
(* the request (a Python dict keeps insertion order).  The top-level       *)
(* object and the responses are functions from their keys.  A formatted    *)
(* message "{0} is missing".format(x) is the tuple <<x, " is missing">>.   *)
(* A probability is one of NumProbas distinct values, 1..NumProbas.        *)
(***************************************************************************)
EXTENDS Integers, Sequences, FiniteSets, TLC

VARIABLES
    store,      \* the Prediction table: a sequence of rows, row i has primary key i
    last,       \* sequential server: the last call (op, req, resp, before)
    first,      \* sequential server: id -> <<probability>> scored by the first valid /predict of that id, or <<>>
    pc,         \* concurrent server: position of each request handler
    hreq,       \* concurrent server: the request each handler is serving
    hresp,      \* concurrent server: the response each handler has built
    peers       \* concurrent server: handlers that were in flight with the same id when this one saved

vars == <<store, last, first, pc, hreq, hresp, peers>>

----------------------------------------------------------------------------
\* Bounds of the model

MaxId == 2          \* observation ids are 1..MaxId (and null)
NumProbas == 2      \* the scorer answers one of NumProbas probabilities
MaxClass == 1       \* true_class values sent to /update are 0..MaxClass

----------------------------------------------------------------------------
\* JSON values

None == <<"null">>
JInt(n) == <<"int", n>>
JStr(s) == <<"str", s>>

Num(v) == v[2]

\* list(d.keys()) of an ordered dict
Keys(d) == [i \in 1..Len(d) |-> d[i][1]]

SeqHas(s, x) == \E i \in 1..Len(s) : s[i] = x

\* d[k] of an ordered dict that has the key
Get(d, k) == d[CHOOSE i \in 1..Len(d) : d[i][1] = k][2]

----------------------------------------------------------------------------
\* Schema registry: columns.json.  The file is not part of the sources; the
\* handler names six of its columns (the ones it range-checks), and one
\* column it does not check stands for the remaining eight.

columns == <<"age", "workclass", "race", "sex",
             "capital-gain", "capital-loss", "hours-per-week">>

SexOptions == {JStr("Male"), JStr("Female")}
RaceOptions == {JStr("White"), JStr("Black"), JStr("Asian-Pac-Islander"),
                JStr("Amer-Indian-Eskimo"), JStr("Other")}
MaxAge == 100
MaxHours == 100

----------------------------------------------------------------------------
\* /predict, lines 75-127: the validation cascade.  The result is the error
\* response of the first failing check, or Passed.

Passed == [passed |-> TRUE]

Err(_id, msg) == [observation_id |-> _id, error |-> msg]

\* lines 92-95: the first schema column absent from the request
FirstMissing(request_columns) ==
    LET i == CHOOSE i \in 1..Len(columns) :
                 /\ ~SeqHas(request_columns, columns[i])
                 /\ \A j \in 1..(i-1) : SeqHas(request_columns, columns[j])
    IN columns[i]

\* lines 98-101: the first request column absent from the schema
FirstExtra(request_columns) ==
    LET i == CHOOSE i \in 1..Len(request_columns) :
                 /\ ~SeqHas(columns, request_columns[i])
                 /\ \A j \in 1..(i-1) : SeqHas(columns, request_columns[j])
    IN request_columns[i]

BadAge(v) == Num(v) <= 0 \/ Num(v) > MaxAge
BadCapitalGain(v) == Num(v) < 0
BadCapitalLoss(v) == Num(v) < 0
\* hours-per-week of 0 let through
BadHoursFromZero(v) == Num(v) < 0 \/ Num(v) > MaxHours

BadHours(v) == Num(v) <= 0 \/ Num(v) > MaxHours

\* race checked before sex
CheckValuesRaceFirst(_id, data) ==
    IF Get(data, "race") \notin RaceOptions
    THEN Err(_id, <<Get(data, "race"), " is not a valid option for race">>)
    ELSE IF Get(data, "sex") \notin SexOptions
    THEN Err(_id, <<Get(data, "sex"), " is not a valid option for sex">>)
    ELSE IF BadAge(Get(data, "age"))
    THEN Err(_id, <<Get(data, "age"), " is not a valid option for age">>)
    ELSE IF BadCapitalGain(Get(data, "capital-gain"))
    THEN Err(_id, <<Get(data, "capital-gain"), " is not a valid option for capital-gain">>)
    ELSE IF BadCapitalLoss(Get(data, "capital-loss"))
    THEN Err(_id, <<Get(data, "capital-loss"), " is not a valid option for capital-loss">>)
    ELSE IF BadHours(Get(data, "hours-per-week"))
    THEN Err(_id, <<Get(data, "hours-per-week"), " is not a valid option for hours-per-week">>)
    ELSE Passed

CheckValues(_id, data) ==
    IF Get(data, "sex") \notin SexOptions
    THEN Err(_id, <<Get(data, "sex"), " is not a valid option for sex">>)
    ELSE IF Get(data, "race") \notin RaceOptions
    THEN Err(_id, <<Get(data, "race"), " is not a valid option for race">>)
    ELSE IF BadAge(Get(data, "age"))
    THEN Err(_id, <<Get(data, "age"), " is not a valid option for age">>)
    ELSE IF BadCapitalGain(Get(data, "capital-gain"))
    THEN Err(_id, <<Get(data, "capital-gain"), " is not a valid option for capital-gain">>)
    ELSE IF BadCapitalLoss(Get(data, "capital-loss"))
    THEN Err(_id, <<Get(data, "capital-loss"), " is not a valid option for capital-loss">>)
    ELSE IF BadHours(Get(data, "hours-per-week"))
    THEN Err(_id, <<Get(data, "hours-per-week"), " is not a valid option for hours-per-week">>)
    ELSE Passed

CheckColumns(_id, data) ==
    LET request_columns == Keys(data) IN
    IF \E i \in 1..Len(columns) : ~SeqHas(request_columns, columns[i])
    THEN Err(_id, <<FirstMissing(request_columns), " is missing">>)
    ELSE IF \E i \in 1..Len(request_columns) : ~SeqHas(columns, request_columns[i])
    THEN Err(_id, <<FirstExtra(request_columns), " is an extra column">>)
    ELSE CheckValues(_id, data)

validate(obs_dict) ==
    IF "observation_id" \notin DOMAIN obs_dict
    THEN Err(None, <<"observation_id is missing">>)
    ELSE IF "data" \notin DOMAIN obs_dict
    THEN Err(obs_dict.observation_id, <<"data is missing">>)
    ELSE CheckColumns(obs_dict.observation_id, obs_dict.data)

----------------------------------------------------------------------------
\* The scorer, lines 129-134.  pipeline.predict and pipeline.predict_proba are
\* opaque: the handler receives some label and some probability.

Probas == 1..NumProbas

scored(_id, prediction, probability) ==
    [observation_id |-> _id, prediction |-> prediction, probability |-> probability]

----------------------------------------------------------------------------
\* The Prediction table, lines 20-24.  observation_id is an IntegerField with
\* unique=True and peewee's default null=False: an INSERT of a null or of a
\* value already in the column raises IntegrityError.  observation and proba
\* are given by the caller, true_class is nullable and starts null, the
\* primary key id is assigned by the database.

HasRow(table, oid) == \E i \in 1..Len(table) : table[i].observation_id = oid

RowOf(table, oid) == table[CHOOSE i \in 1..Len(table) : table[i].observation_id = oid]

NotNullViolated(p) == p.observation_id = None

\* observation_id declared without unique=True
UniqueNotEnforced(table, p) == FALSE

UniqueViolated(table, p) == HasRow(table, p.observation_id)

\* a save that replaces the row of a colliding observation_id
saveReplacing(table, p) ==
    IF NotNullViolated(p)
    THEN [raised |-> "IntegrityError", table |-> table]
    ELSE IF UniqueViolated(table, p)
    THEN [raised |-> "", table |->
             [i \in 1..Len(table) |->
                 IF table[i].observation_id = p.observation_id
                 THEN [table[i] EXCEPT !.proba = p.proba, !.observation = p.observation]
                 ELSE table[i]]]
    ELSE [raised |-> "", table |->
             Append(table, [id |-> Len(table) + 1,
                            observation_id |-> p.observation_id,
                            observation |-> p.observation,
                            proba |-> p.proba,
                            true_class |-> None])]

\* p.save() of a new instance, line 143
save(table, p) ==
    IF NotNullViolated(p) \/ UniqueViolated(table, p)
    THEN [raised |-> "IntegrityError", table |-> table]
    ELSE [raised |-> "", table |->
             Append(table, [id |-> Len(table) + 1,
                            observation_id |-> p.observation_id,
                            observation |-> p.observation,
                            proba |-> p.proba,
                            true_class |-> None])]

DuplicateMsg(_id) == <<"ERROR: Observation ID: '", _id, "' already exists">>

\* lines 136-150: build the row, save it, and on IntegrityError add the error
\* to the response; raw is request.data, the body as received
saveAndRespond(table, raw, response) ==
    LET p == [observation_id |-> response.observation_id,
              proba |-> response.probability,
              observation |-> raw]
        r == save(table, p)
    IN IF r.raised = "IntegrityError"
       THEN [table |-> r.table,
             response |-> [observation_id |-> response.observation_id,
                           prediction |-> response.prediction,
                           probability |-> response.probability,
                           error |-> DuplicateMsg(response.observation_id)]]
       ELSE [table |-> r.table, response |-> response]

----------------------------------------------------------------------------
\* /update, lines 154-164.

\* names bound at module level when a handler runs (lines 1-11, 17, 20, 39-48,
\* 65, 69, 155)
ModuleGlobals == {"os", "json", "pickle", "joblib", "pd", "Flask", "jsonify",
                  "request", "SqliteDatabase", "PostgresqlDatabase", "Model",
                  "IntegerField", "FloatField", "TextField", "IntegrityError",
                  "model_to_dict", "DB", "Prediction", "fh", "columns",
                  "pipeline", "dtypes", "app", "predict", "update"}

Fault(exception) == [fault |-> exception]

\* playhouse.shortcuts.model_to_dict: every field of the row, the key included
model_to_dict(row) ==
    [id |-> row.id, observation_id |-> row.observation_id,
     observation |-> row.observation, proba |-> row.proba,
     true_class |-> row.true_class]

NotExistMsg(oid) == <<"Observation ID: \"", oid, "\" does not exist">>

\* line 156 reads obs_dict, which update never assigns: a global lookup
update(table, body) ==
    IF "obs_dict" \notin ModuleGlobals
    THEN [table |-> table, response |-> Fault("NameError")]
    ELSE LET obs == body IN
         IF HasRow(table, obs.id)
         THEN LET i == CHOOSE i \in 1..Len(table) : table[i].observation_id = obs.id
                  t == [table EXCEPT ![i].true_class = obs.true_class]
              IN [table |-> t, response |-> model_to_dict(t[i])]
         ELSE [table |-> table, response |-> [error |-> NotExistMsg(obs.id)]]

----------------------------------------------------------------------------
\* The requests the clients send

Ids == {JInt(n) : n \in 1..MaxId}
IdValues == Ids \cup {None}

\* What a request can have wrong.  MkData builds the data object of a request
\* with the defects D: every value is the valid one unless a defect names it.
Defects == {"no-age", "no-sex", "extra", "sex", "race", "age", "old",
            "gain", "loss", "hours", "long"}

Pick(D, defect, bad, good) == IF defect \in D THEN bad ELSE good

Without(d, miss) == SelectSeq(d, LAMBDA kv : kv[1] \notin miss)

MkData(D) ==
    Without(<< <<"age", JInt(Pick(D, "old", 101, Pick(D, "age", 0, 50)))>>,
               <<"workclass", JStr("Private")>>,
               <<"race", JStr(Pick(D, "race", "Martian", "White"))>>,
               <<"sex", JStr(Pick(D, "sex", "Other", "Male"))>>,
               <<"capital-gain", JInt(Pick(D, "gain", -1, 0))>>,
               <<"capital-loss", JInt(Pick(D, "loss", -1, 0))>>,
               <<"hours-per-week", JInt(Pick(D, "long", 101, Pick(D, "hours", 0, 40)))>> >>,
            Pick(D, "no-age", {"age"}, {}) \cup Pick(D, "no-sex", {"sex"}, {}))
    \o Pick(D, "extra", << <<"foo", JInt(0)>> >>, <<>>)

MkRequests(ids, Ds) ==
    { [observation_id |-> i, data |-> MkData(D)] : i \in ids, D \in Ds }
    \cup { [data |-> MkData(D)] : D \in Ds }
    \cup { [observation_id |-> i] : i \in ids }
    \cup { <<>> }

\* Every id, with valid data or one defect of each kind of check
PredictRequests ==
    MkRequests(IdValues, {{}, {"no-age"}, {"extra"}, {"sex"}, {"long"}})

\* Every combination of at most two defects, and all of them at once
ValidationRequests ==
    MkRequests({JInt(1), None},
               {D \in SUBSET Defects : Cardinality(D) <= 2} \cup {Defects})

UpdateRequests ==
    { [id |-> i, true_class |-> JInt(c)] : i \in Ids, c \in 0..MaxClass }

Handlers == {"h1", "h2"}

----------------------------------------------------------------------------
\* The server handling one request at a time

NoCall == <<>>

Init ==
    /\ store = <<>>
    /\ last = [op |-> "init"]
    /\ first = [i \in IdValues |-> NoCall]
    /\ pc = [h \in Handlers |-> "idle"]
    /\ hreq = [h \in Handlers |-> <<>>]
    /\ hresp = [h \in Handlers |-> <<>>]
    /\ peers = [h \in Handlers |-> {}]

\* /predict, lines 69-150
Predict(obs_dict) ==
    LET v == validate(obs_dict) IN
    /\ IF "error" \in DOMAIN v
       THEN /\ store' = store
            /\ first' = first
            /\ last' = [op |-> "predict", req |-> obs_dict, resp |-> v,
                        before |-> store, repeat |-> FALSE]
       ELSE \E prediction \in BOOLEAN, probability \in Probas :
              LET _id == obs_dict.observation_id
                  r == saveAndRespond(store, obs_dict,
                                      scored(_id, prediction, probability))
              IN /\ store' = r.table
                 /\ first' = IF first[_id] = NoCall
                             THEN [first EXCEPT ![_id] = <<probability>>]
                             ELSE first
                 /\ last' = [op |-> "predict", req |-> obs_dict,
                             resp |-> r.response, before |-> store,
                             repeat |-> first[_id] # NoCall]
    /\ UNCHANGED <<pc, hreq, hresp, peers>>

\* /update, lines 155-164
Update(body) ==
    LET r == update(store, body) IN
    /\ store' = r.table
    /\ last' = [op |-> "update", req |-> body, resp |-> r.response,
                before |-> store, repeat |-> FALSE]
    /\ UNCHANGED <<first, pc, hreq, hresp, peers>>

Next ==
    \/ \E obs_dict \in PredictRequests : Predict(obs_dict)
    \/ \E body \in UpdateRequests : Update(body)

Spec == Init /\ [][Next]_vars

\* The same server, fed the wide family of malformed requests
NextV ==
    \/ \E obs_dict \in ValidationRequests : Predict(obs_dict)
    \/ \E body \in UpdateRequests : Update(body)

SpecV == Init /\ [][NextV]_vars

----------------------------------------------------------------------------
\* The server handling requests concurrently.  A handler's only access to
\* shared state is its one statement on the table (p.save() in /predict),
\* which the database executes atomically; everything before it (parsing,
\* validation, scoring) and after it (the error field, jsonify) is local.

PredictBegin(h, obs_dict) ==
    LET v == validate(obs_dict) IN
    /\ pc[h] = "idle"
    /\ hreq' = [hreq EXCEPT ![h] = obs_dict]
    /\ IF "error" \in DOMAIN v
       THEN /\ hresp' = [hresp EXCEPT ![h] = v]
            /\ pc' = [pc EXCEPT ![h] = "done"]
       ELSE \E prediction \in BOOLEAN, probability \in Probas :
            /\ hresp' = [hresp EXCEPT ![h] =
                            scored(obs_dict.observation_id, prediction, probability)]
            /\ pc' = [pc EXCEPT ![h] = "scored"]
    /\ UNCHANGED <<store, last, first, peers>>

PredictSave(h) ==
    LET r == saveAndRespond(store, hreq[h], hresp[h]) IN
    /\ pc[h] = "scored"
    /\ store' = r.table
    /\ hresp' = [hresp EXCEPT ![h] = r.response]
    /\ pc' = [pc EXCEPT ![h] = "done"]
    /\ peers' = [peers EXCEPT ![h] =
                    {g \in Handlers \ {h} :
                        /\ pc[g] = "scored"
                        /\ hreq[g].observation_id = hreq[h].observation_id}]
    /\ UNCHANGED <<last, first, hreq>>

UpdateCall(h, body) ==
    LET r == update(store, body) IN
    /\ pc[h] = "idle"
    /\ store' = r.table
    /\ hreq' = [hreq EXCEPT ![h] = body]
    /\ hresp' = [hresp EXCEPT ![h] = r.response]
    /\ pc' = [pc EXCEPT ![h] = "done"]
    /\ UNCHANGED <<last, first, peers>>

\* the response is sent and the handler is free for the next request
Return(h) ==
    /\ pc[h] = "done"
    /\ pc' = [pc EXCEPT ![h] = "idle"]
    /\ hreq' = [hreq EXCEPT ![h] = <<>>]
    /\ hresp' = [hresp EXCEPT ![h] = <<>>]
    /\ peers' = [g \in Handlers |-> IF g = h THEN {} ELSE peers[g] \ {h}]
    /\ UNCHANGED <<store, last, first>>

NextC ==
    \/ \E h \in Handlers, obs_dict \in PredictRequests : PredictBegin(h, obs_dict)
    \/ \E h \in Handlers : PredictSave(h)
    \/ \E h \in Handlers, body \in UpdateRequests : UpdateCall(h, body)
    \/ \E h \in Handlers : Return(h)

SpecC == Init /\ [][NextC]_vars

----------------------------------------------------------------------------
\* What the claims speak of

ColumnSet == {columns[i] : i \in 1..Len(columns)}

HasKey(d, k) == \E i \in 1..Len(d) : d[i][1] = k

RowsOf(table, oid) == {i \in 1..Len(table) : table[i].observation_id = oid}

\* data carries the field and its value fails the test
FieldFails(req, k, Bad(_)) ==
    /\ "data" \in DOMAIN req
    /\ HasKey(req.data, k)
    /\ Bad(Get(req.data, k))

OutOfRange(v, lo, hi) == ~(lo < Num(v) /\ Num(v) <= hi)
Negative(v) == ~(Num(v) >= 0)

\* The ten checks in the order of the specification: request req violates check n
Violates(req, n) ==
    CASE n = 1 -> "observation_id" \notin DOMAIN req
      [] n = 2 -> "data" \notin DOMAIN req
      [] n = 3 -> "data" \in DOMAIN req /\ \E c \in ColumnSet : ~HasKey(req.data, c)
      [] n = 4 -> "data" \in DOMAIN req
                  /\ \E i \in 1..Len(req.data) : req.data[i][1] \notin ColumnSet
      [] n = 5 -> FieldFails(req, "sex",
                     LAMBDA v : v \notin {JStr("Male"), JStr("Female")})
      [] n = 6 -> FieldFails(req, "race",
                     LAMBDA v : v \notin {JStr("White"), JStr("Black"),
                                          JStr("Asian-Pac-Islander"),
                                          JStr("Amer-Indian-Eskimo"), JStr("Other")})
      [] n = 7 -> FieldFails(req, "age", LAMBDA v : OutOfRange(v, 0, 100))
      [] n = 8 -> FieldFails(req, "capital-gain", Negative)
      [] n = 9 -> FieldFails(req, "capital-loss", Negative)
      [] n = 10 -> FieldFails(req, "hours-per-week", LAMBDA v : OutOfRange(v, 0, 100))

ViolatedChecks(req) == {n \in 1..10 : Violates(req, n)}

Earliest(S) == CHOOSE n \in S : \A m \in S : n <= m

FieldReason(req, k, e) == e = <<Get(req.data, k), " is not a valid option for " \o k>>

\* e is the reason check n gives for request req
IsReason(req, n, e) ==
    CASE n = 1 -> e = <<"observation_id is missing">>
      [] n = 2 -> e = <<"data is missing">>
      [] n = 3 -> \E c \in ColumnSet : ~HasKey(req.data, c) /\ e = <<c, " is missing">>
      [] n = 4 -> \E i \in 1..Len(req.data) :
                     /\ req.data[i][1] \notin ColumnSet
                     /\ e = <<req.data[i][1], " is an extra column">>
      [] n = 5 -> FieldReason(req, "sex", e)
      [] n = 6 -> FieldReason(req, "race", e)
      [] n = 7 -> FieldReason(req, "age", e)
      [] n = 8 -> FieldReason(req, "capital-gain", e)
      [] n = 9 -> FieldReason(req, "capital-loss", e)
      [] n = 10 -> FieldReason(req, "hours-per-week", e)

\* a /predict request that violates no check
ValidRequest(req) == ViolatedChecks(req) = {}

FailedPredict == last.op = "predict" /\ ViolatedChecks(last.req) # {}
ValidPredict == last.op = "predict" /\ ValidRequest(last.req)

----------------------------------------------------------------------------
\* C1: the second of two /predict calls with the same observation_id and a
\* valid payload leaves exactly one stored row for that id, whose proba is the
\* probability the first call scored, and its response carries prediction,
\* probability and the duplicate error.
C1_SecondCallKeepsFirst ==
    (ValidPredict /\ last.repeat) =>
        LET _id == last.req.observation_id IN
        /\ Cardinality(RowsOf(store, _id)) = 1
        /\ <<RowOf(store, _id).proba>> = first[_id]
        /\ {"prediction", "probability", "error"} \subseteq DOMAIN last.resp
        /\ last.resp.error = DuplicateMsg(_id)

\* C1 for integer ids only (the case the null id does not reach)
C1_ForIntegerIds ==
    (ValidPredict /\ last.repeat /\ last.req.observation_id \in Ids) =>
        LET _id == last.req.observation_id IN
        /\ Cardinality(RowsOf(store, _id)) = 1
        /\ <<RowOf(store, _id).proba>> = first[_id]
        /\ {"prediction", "probability", "error"} \subseteq DOMAIN last.resp
        /\ last.resp.error = DuplicateMsg(_id)

\* C2: no two stored Prediction records have the same observation_id.
C2_UniqueObservationId ==
    \A i, j \in 1..Len(store) :
        store[i].observation_id = store[j].observation_id => i = j

\* a duplicate was offered to a table of several rows, and refused
C2_Witness ==
    /\ Len(store) >= 2
    /\ last.op = "predict"
    /\ "prediction" \in DOMAIN last.resp
    /\ HasRow(last.before, last.req.observation_id)

C4_ValidRequestCreatesRow ==
    (ValidPredict /\ ~HasRow(last.before, last.req.observation_id)) =>
        /\ {"prediction", "probability"} \subseteq DOMAIN last.resp
        /\ last.resp.prediction \in BOOLEAN
        /\ Len(store) = Len(last.before) + 1
        /\ SubSeq(store, 1, Len(last.before)) = last.before
        /\ store[Len(store)].observation_id = last.req.observation_id
        /\ store[Len(store)].proba = last.resp.probability

\* C4 for integer ids only
C4_ForIntegerIds ==
    (/\ ValidPredict
     /\ last.req.observation_id \in Ids
     /\ ~HasRow(last.before, last.req.observation_id)) =>
        /\ {"prediction", "probability"} \subseteq DOMAIN last.resp
        /\ last.resp.prediction \in BOOLEAN
        /\ Len(store) = Len(last.before) + 1
        /\ SubSeq(store, 1, Len(last.before)) = last.before
        /\ store[Len(store)].observation_id = last.req.observation_id
        /\ store[Len(store)].proba = last.resp.probability

\* C5: /update of a stored id sets that record's true_class to the supplied
\* value and answers with the full updated record, not with a fault.
C5_UpdateSetsTrueClass ==
    (last.op = "update" /\ HasRow(last.before, last.req.id)) =>
        /\ "fault" \notin DOMAIN last.resp
        /\ RowOf(store, last.req.id).true_class = last.req.true_class
        /\ {"observation_id", "observation", "proba", "true_class"}
               \subseteq DOMAIN last.resp
        /\ \A f \in {"observation_id", "observation", "proba", "true_class"} :
               last.resp[f] = RowOf(store, last.req.id)[f]

\* C6: /update of an id with no stored record answers the error object
\* 'Observation ID: "<id>" does not exist' and changes and creates no record.
C6_UpdateUnknownId ==
    (last.op = "update" /\ ~HasRow(last.before, last.req.id)) =>
        /\ last.resp = [error |-> <<"Observation ID: \"", last.req.id, "\" does not exist">>]
        /\ store = last.before

C8_ErrorOnlyForDuplicates ==
    (last.op = "predict" /\ "prediction" \in DOMAIN last.resp) =>
        ("error" \in DOMAIN last.resp <=> HasRow(last.before, last.req.observation_id))

\* C9: every step keeps every stored record, with its key, observation_id,
\* observation and proba; only true_class may change, and only in an /update.
C9_RecordsAreKept ==
    [][\A i \in 1..Len(store) :
          /\ i <= Len(store')
          /\ store'[i].id = store[i].id
          /\ store'[i].observation_id = store[i].observation_id
          /\ store'[i].observation = store[i].observation
          /\ store'[i].proba = store[i].proba
          /\ store'[i].true_class # store[i].true_class => last'.op = "update"]_vars

\* a stored record has been through an /update of its id and a duplicate /predict
C9_Witness ==
    /\ Len(store) >= 1
    /\ \/ last.op = "update" /\ HasRow(last.before, last.req.id)
       \/ last.op = "predict" /\ "prediction" \in DOMAIN last.resp
            /\ HasRow(last.before, last.req.observation_id)
            /\ last.resp.probability # RowOf(store, last.req.observation_id).proba

\* C10: of two /predict requests with the same observation_id and valid
\* payloads that were both scored before either saved, exactly one insert
\* succeeds, the other gets the duplicate error, and the store holds exactly
\* one row for the id, with the probability of the request that succeeded.
C10_OneOfTwoConcurrentWins ==
    \A h1, h2 \in Handlers :
        (pc[h1] = "done" /\ pc[h2] = "done" /\ h2 \in peers[h1]) =>
            LET _id == hreq[h1].observation_id
                won == {h \in {h1, h2} : "error" \notin DOMAIN hresp[h]}
            IN /\ Cardinality(won) = 1
               /\ \A h \in {h1, h2} \ won : hresp[h].error = DuplicateMsg(_id)
               /\ Cardinality(RowsOf(store, _id)) = 1
               /\ \A h \in won : RowOf(store, _id).proba = hresp[h].probability

\* C10 when the first of the two to save succeeded
C10_WhenFirstSaverWins ==
    \A h1, h2 \in Handlers :
        (/\ pc[h1] = "done" /\ pc[h2] = "done" /\ h2 \in peers[h1]
         /\ "error" \notin DOMAIN hresp[h1]) =>
            LET _id == hreq[h1].observation_id IN
            /\ hresp[h2].error = DuplicateMsg(_id)
            /\ Cardinality(RowsOf(store, _id)) = 1
            /\ RowOf(store, _id).proba = hresp[h1].probability

====
